---- MODULE Spec2Model ----
(***************************************************************************)
(* A model of the QueryClient of ergan-query (src/src/solid.ts, lines      *)
(* 133-306): the cache table, the remembered query functions, the          *)
(* subscriber sets and the plugin hook list, with one action per public    *)
(* method and one action per resumption of an async method after an await. *)
(***************************************************************************)
EXTENDS Integers, Sequences, FiniteSets, TLC

\* ------------------------------------------------------------------ bounds

\* The number of async calls (ensureQueryData, fetchQuery, refetch) that may
\* be suspended at an await at the same time.
MaxInflight == 2

\* The number of plugin hook objects use() may append.
MaxPlugins == 2

\* The number of method calls the callers make in one behaviour (resumptions
\* of suspended calls are not counted: they are not the callers' choice).
MaxCalls == 4

\* The number of callback calls after which a round of notification that has
\* not ended is taken never to end (more than a round that ends can make
\* with the callbacks below).
MaxVisits == 6

\* ------------------------------------------------------- JavaScript values

\* The JavaScript value undefined (also what an omitted argument reads as).
Undefined == "undefined"

\* The values a query function may resolve to; undefined is one of them.
Values == {"v1", "v2", Undefined}

\* The errors a query function may reject with.
Errors == {"E1"}

\* The query functions callers pass.
Fns == {"F1", "F2"}

\* The subscriber callbacks callers pass.
Callbacks == {"cb1", "cb2"}

\* What the caller may pass as shouldRefetchOnInvalidate: true, false, or
\* nothing at all (the parameter then reads undefined).
RefetchArgs == {"true", "false", Undefined}

\* JavaScript truthiness of the values above, as `a && b` and `if (a)` see it.
Truthy(x) == x \notin {"false", Undefined, "null"}

\* A query key argument: an array of elements, or no key at all.
KeyArray(elems) == [kind |-> "array", elems |-> elems]
NoKey == [kind |-> Undefined, elems |-> <<>>]
Str(s) == [t |-> "string", v |-> s]
Num(n) == [t |-> "number", v |-> n]
NaN == [t |-> "number", v |-> "NaN"]
Null == [t |-> "null", v |-> "null"]

\* The key arguments callers pass: two different arrays that JSON.stringify
\* prints alike.
RawKeys == {KeyArray(<<Str("a"), Null>>), KeyArray(<<Str("a"), NaN>>)}

\* JSON.stringify of one array element: strings are quoted, finite numbers
\* print as they are, null, NaN and undefined all print as null.
\* The elements of a sequence.
SeqRange(s) == {s[i] : i \in 1..Len(s)}

\* An object element: its properties as <<name, number>> pairs, in the order
\* in which they were added to the object.
Obj(props) == [t |-> "object", v |-> props]

\* JSON.stringify of an object's properties: "name":value, in the object's
\* own property order.
RECURSIVE StringifyProps(_)
StringifyProps(props) ==
    IF props = <<>> THEN ""
    ELSE "\"" \o Head(props)[1] \o "\":" \o Head(props)[2]
         \o (IF Len(props) = 1 THEN "" ELSE "," \o StringifyProps(Tail(props)))

StringifyElem(e) ==
    CASE e.t = "string" -> "\"" \o e.v \o "\""
      [] e.t = "number" -> IF e.v = "NaN" THEN "null" ELSE e.v
      [] e.t = "object" -> "{" \o StringifyProps(e.v) \o "}"
      [] OTHER -> "null"

RECURSIVE JoinElems(_)
JoinElems(elems) ==
    IF elems = <<>> THEN ""
    ELSE IF Len(elems) = 1 THEN StringifyElem(Head(elems))
    ELSE StringifyElem(Head(elems)) \o "," \o JoinElems(Tail(elems))

\* JSON.stringify of an array.
JSONstringify(elems) == "[" \o JoinElems(elems) \o "]"

\* The canonical key as it would be if the properties of an object were
\* printed in one fixed order, whatever the order in which they were added
\* (a stable stringify in place of JSON.stringify).
SortedProps(props) ==
    CHOOSE s \in [1..Len(props) -> SeqRange(props)] : SeqRange(s) = SeqRange(props)
CanonicalKey_SortsProperties(queryKey) ==
    IF queryKey.kind = "array"
    THEN JSONstringify([i \in 1..Len(queryKey.elems) |->
                           IF queryKey.elems[i].t = "object"
                           THEN Obj(SortedProps(queryKey.elems[i].v))
                           ELSE queryKey.elems[i]])
    ELSE "undefined"

\* const key = queryKey ? JSON.stringify(queryKey) : 'undefined';
\* an array is truthy (also the empty one), a missing key is not.
CanonicalKey(queryKey) ==
    IF queryKey.kind = "array" THEN JSONstringify(queryKey.elems) ELSE "undefined"

\* The key argument of callers that use a single key: every key argument
\* with the same canonical form leads to the same state.
OneKey == {KeyArray(<<Str("a"), Null>>)}

\* Every key argument of the model: the arrays above and no key at all.
AllRawKeys == RawKeys \cup {NoKey}

\* Two arrays of one object each, the objects having the same properties
\* with the same values, added in different orders.
ObjectKeys ==
    { KeyArray(<<Obj(<<<<"p", "1">>, <<"q", "2">>>>)>>),
      KeyArray(<<Obj(<<<<"q", "2">>, <<"p", "1">>>>)>>) }

\* The key arguments of callers that pass objects in their keys: the two
\* arrays above, and no key at all.
CanonRawKeys == ObjectKeys \cup {NoKey}

Keys == {CanonicalKey(q) : q \in AllRawKeys \cup CanonRawKeys}

\* ------------------------------------------------------------ Map and Set

\* A JavaScript Map is a function whose domain is the set of keys present.
EmptyMap == [k \in {} |-> Undefined]
MapHas(m, k) == k \in DOMAIN m
MapGet(m, k) == IF k \in DOMAIN m THEN m[k] ELSE Undefined
MapSet(m, k, v) == [x \in (DOMAIN m) \cup {k} |-> IF x = k THEN v ELSE m[x]]
MapDelete(m, k) == [x \in (DOMAIN m) \ {k} |-> m[x]]

\* A JavaScript Set is a sequence without repetition, in insertion order.
\* Set.add as it would be for a list: the element is appended every time.
SetAdd_Appends(s, x) == Append(s, x)
SetAdd(s, x) == IF x \in SeqRange(s) THEN s ELSE Append(s, x)
SetDelete(s, x) == SelectSeq(s, LAMBDA y : y # x)

\* ------------------------------------------------------------------ state

VARIABLES
    cache,        \* Map<string, any>
    subscribers,  \* Map<string, Set<() => void>>
    queryFns,     \* Map<string, QueryFn>
    pluginHooks,  \* PluginHooks[]
    pending,      \* the async calls suspended at an await, oldest first
    calls,        \* how many method calls have been made so far
    changed,      \* which Map slots (and the plugin list) the latest step changed
    last,         \* what the latest step did, as its caller and the hooks saw it
    succeeded,    \* per key, the query function of the latest fetch that resolved
    idle          \* the keys invalidated with `false` and not fetched for since

vars == <<cache, subscribers, queryFns, pluginHooks, pending, calls, changed, last,
          succeeded, idle>>

store == <<cache, subscribers, queryFns, pluginHooks>>

\* The subscriber callbacks of a key, in subscription order.
SubsOf(key) == IF MapHas(subscribers, key) THEN subscribers[key] ELSE <<>>

\* ---------------------------------------------------------------- plugins

\* A PluginHooks object: each of the four optional hooks is missing ("none"),
\* present and returning ("ok"), present and throwing ("throw"), or present,
\* calling getQueryData for its key on the client it was given, and
\* returning ("reads").
PluginHooks(start, success, error, invalidate) ==
    [onQueryStart |-> start, onQuerySuccess |-> success,
     onQueryError |-> error, onInvalidate |-> invalidate]

\* What a plugin function returns to use(): a hooks object, or nothing.
Returns(hooks) == [void |-> FALSE, hooks |-> hooks]
ReturnsVoid == [void |-> TRUE, hooks |-> PluginHooks("none", "none", "none", "none")]

\* The plugins whose hooks all return.
CalmPlugins ==
    { Returns(PluginHooks("ok", "ok", "ok", "ok")),
      Returns(PluginHooks("none", "ok", "none", "ok")),
      ReturnsVoid }

\* Plugins with one hook that throws.
ThrowingPlugins ==
    { Returns(PluginHooks("throw", "ok", "ok", "ok")),
      Returns(PluginHooks("ok", "throw", "ok", "ok")),
      Returns(PluginHooks("ok", "ok", "throw", "ok")),
      Returns(PluginHooks("ok", "ok", "ok", "throw")) }

\* The value a throwing hook throws.
HookError == "hook error"

\* One call of a hook, as the plugin sees it: fn(...args).
HookCall(i, hook, key, arg) == [plugin |-> i, hook |-> hook, key |-> key, arg |-> arg]

\* for (const plugin of this.pluginHooks) { const fn = plugin[hook]; if (fn) fn(...args) }
\* from the i-th plugin on: the calls made, and whether one of them threw
\* (which ends the loop).
RECURSIVE RunHookFrom(_, _, _, _, _)
RunHookFrom(hooksList, i, hook, key, arg) ==
    IF i > Len(hooksList) THEN [calls |-> <<>>, threw |-> FALSE]
    ELSE LET fn == hooksList[i][hook] IN
         IF fn = "none" THEN RunHookFrom(hooksList, i + 1, hook, key, arg)
         ELSE IF fn = "throw"
              THEN [calls |-> <<HookCall(i, hook, key, arg)>>, threw |-> TRUE]
              ELSE LET rest == RunHookFrom(hooksList, i + 1, hook, key, arg) IN
                   [calls |-> <<HookCall(i, hook, key, arg)>> \o rest.calls,
                    threw |-> rest.threw]

RECURSIVE Reversed(_)
Reversed(s) == IF s = <<>> THEN <<>> ELSE Append(Reversed(Tail(s)), Head(s))

\* runHook as it would be if the loop walked the plugin list from its end.
runHook_NewestFirst(hook, key, arg) ==
    [calls |-> Reversed(RunHookFrom(pluginHooks, 1, hook, key, arg).calls),
     threw |-> RunHookFrom(pluginHooks, 1, hook, key, arg).threw]

runHook(hook, key, arg) == RunHookFrom(pluginHooks, 1, hook, key, arg)

\* ------------------------------------------------------- what a step did

\* What the three Maps held for one key.
Before(key) ==
    [has |-> MapHas(cache, key), value |-> MapGet(cache, key),
     fn |-> MapGet(queryFns, key),
     subs |-> IF MapHas(subscribers, key) THEN subscribers[key] ELSE <<>>]

\* No promise settled in this step.
NoOutcome == [ok |-> FALSE, v |-> "-"]

\* The record of one step: the method and where in it the step ran, the
\* canonical key, the query function (or callback) and shouldRefetch argument
\* it was given ("-" when it takes none), how the awaited promise settled (for
\* a resumption), what the Maps held for the key when the step began and when
\* the awaited promise settled, the plugin hook calls, query function calls
\* and subscriber callback calls the step made, in order, and how it ended:
\* "return" (a returned value or a resolved promise), "throw" (a thrown error
\* or a rejected promise), or "pending" (suspended at an await). For the
\* resumption of an ensureQueryData or fetchQuery, pos is the place the call
\* had among the suspended calls, oldest first (0 otherwise). reads is what
\* the hooks and subscriber callbacks that call getQueryData for the key
\* during the step got from it, in order. A step that ends as "hang" never
\* returns: its round of notification goes on for ever.
Did(op, phase, key, fn, arg, outcome, hooks, called, notified, kind, value) ==
    [op |-> op, phase |-> phase, key |-> key, fn |-> fn, arg |-> arg,
     outcome |-> outcome, before |-> Before(key), atSettle |-> Before(key),
     hooks |-> hooks, called |-> called, notified |-> notified,
     result |-> [kind |-> kind, v |-> value], pos |-> 0, reads |-> <<>>]

\* A call suspended at an await. stage "queryFn": at `await queryFn()`;
\* stage "fetchQuery": refetch at `await this.fetchQuery(...)`, whose promise
\* has settled as `settled`, the Maps then holding `atSettle` for the key.
Suspended(op, key, fn) ==
    [op |-> op, key |-> key, fn |-> fn, stage |-> "queryFn",
     settled |-> [kind |-> "pending", v |-> "-"], atSettle |-> Before("-")]

RemoveAt(s, i) == SubSeq(s, 1, i - 1) \o SubSeq(s, i + 1, Len(s))

\* ------------------------------------------------- subscriber callbacks

\* The callback a mounted useQuery has subscribed to its key: the
\* handleInvalidation of the Solid hook, and the onStoreChange that React's
\* useSyncExternalStore passes to the React hook's subscribe (a component
\* whose queryKey and queryFn are the same objects in every render).
BindingCallbacks == {"handleInvalidation", "onStoreChange"}

\* The queryFn each of the two components passes to useQuery.
BindingFn(cb) == IF cb = "handleInvalidation" THEN "F1" ELSE "F2"

\* What a subscriber callback does when it is called, for the key it is
\* subscribed to: nothing that touches the client ("cb1", "cb2", "guest");
\* getQueryData(key) ("reader", and the onStoreChange of React's
\* useSyncExternalStore, which reads getSnapshot); ensureQueryData(key, fn)
\* ("fetcher", and the handleInvalidation of the Solid useQuery);
\* unsubscribe(key, itself) followed by subscribe(key, itself)
\* ("resubscriber"); subscribe(key, other) ("inviter").
CallbackBody(cb) ==
    CASE cb \in {"reader", "onStoreChange"} -> [does |-> "getQueryData", with |-> "-"]
      [] cb = "fetcher" -> [does |-> "ensureQueryData", with |-> "F1"]
      [] cb = "handleInvalidation" -> [does |-> "ensureQueryData", with |-> BindingFn(cb)]
      [] cb = "resubscriber" -> [does |-> "resubscribe", with |-> "-"]
      [] cb = "inviter" -> [does |-> "subscribe", with |-> "guest"]
      [] OTHER -> [does |-> "nothing", with |-> "-"]

\* The place of a deleted element in the entry list of a Set that is being
\* walked by forEach.
Empty == "<empty>"

\* One getQueryData made by a hook or a callback during a step.
Read(by, value) == [by |-> by, v |-> value]

\* A round of notification before its first callback: the Set's entries, the
\* suspended calls, and what the callbacks have done so far.
StartRound(key) ==
    [entries |-> MapGet(subscribers, key), pending |-> pending, hooks |-> <<>>,
     called |-> <<>>, notified |-> <<>>, reads |-> <<>>, done |-> FALSE]

\* fetchData() of a useQuery, and any other call of ensureQueryData(key,
\* queryFn) made inside a step whose record is r, the cache being `seen`:
\* ensureQueryData runs up to its await (a hit returns, a throwing start hook
\* rejects, otherwise queryFn is called and the call suspends) and the
\* promise is left to the caller, which catches a rejection.
fetchData(r, key, queryFn, seen) ==
    LET start == runHook("onQueryStart", key, "-")
    IN  IF MapHas(seen, key) THEN r
        ELSE IF start.threw THEN [r EXCEPT !.hooks = @ \o start.calls]
        ELSE [r EXCEPT !.hooks = @ \o start.calls,
                       !.called = Append(@, queryFn),
                       !.pending = Append(@, Suspended("ensureQueryData", key, queryFn))]

\* callback(): the round after the callback has run, the cache being `seen`.
\* An ensureQueryData runs up to its await (its promise, also a rejected one,
\* is left to the callback); an unsubscribe empties the callback's place in
\* the entry list and a subscribe of a callback that is not in the Set
\* appends it.
CallCallback(r, cb, key, seen) ==
    LET body == CallbackBody(cb)
        without == [j \in 1..Len(r.entries) |-> IF r.entries[j] = cb THEN Empty ELSE r.entries[j]]
    IN  CASE body.does = "getQueryData" ->
                 [r EXCEPT !.reads = Append(@, Read(cb, MapGet(seen, key)))]
          [] body.does = "ensureQueryData" -> fetchData(r, key, body.with, seen)
          [] body.does = "resubscribe" -> [r EXCEPT !.entries = Append(without, cb)]
          [] body.does = "subscribe" ->
                 IF body.with \in SeqRange(r.entries) THEN r
                 ELSE [r EXCEPT !.entries = Append(@, body.with)]
          [] OTHER -> r

\* Set.prototype.forEach from the i-th entry on: the entries are visited in
\* order, the emptied ones skipped, those appended during the walk included,
\* until the end of the list is reached (which a walk of more than `fuel`
\* calls is taken never to do).
RECURSIVE ForEachFrom(_, _, _, _, _)
ForEachFrom(r, i, key, seen, fuel) ==
    IF i > Len(r.entries) THEN [r EXCEPT !.done = TRUE]
    ELSE IF r.entries[i] = Empty THEN ForEachFrom(r, i + 1, key, seen, fuel)
    ELSE IF fuel = 0 THEN r
    ELSE ForEachFrom(CallCallback([r EXCEPT !.notified = Append(@, r.entries[i])],
                                  r.entries[i], key, seen),
                     i + 1, key, seen, fuel - 1)

\* What a round of notification leaves: the subscriber sets and the suspended
\* calls after it, the hooks, query functions and callbacks called and the
\* reads made during it, in order, and whether it ended.
Round(subs, pend, hooks, called, notified, reads, done) ==
    [subscribers |-> subs, pending |-> pend, hooks |-> hooks, called |-> called,
     notified |-> notified, reads |-> reads, done |-> done]

\* What the invalidate hooks that call getQueryData for the key (the hooks
\* marked "reads") get from it, the cache being `seen` while they run.
HookReads(hookCalls, seen) ==
    LET readers == SelectSeq(hookCalls, LAMBDA c : pluginHooks[c.plugin][c.hook] = "reads")
    IN [j \in 1..Len(readers) |-> Read(readers[j].hook, MapGet(seen, readers[j].key))]

\* No round of notification is made.
NoRound == Round(subscribers, pending, <<>>, <<>>, <<>>, <<>>, TRUE)

\* How a query function's promise settles: resolved with a value or rejected
\* with an error.
Outcomes == {[ok |-> TRUE, v |-> v] : v \in Values} \cup {[ok |-> FALSE, v |-> e] : e \in Errors}

Init ==
    /\ cache = EmptyMap
    /\ subscribers = EmptyMap
    /\ queryFns = EmptyMap
    /\ pluginHooks = <<>>
    /\ pending = <<>>
    /\ calls = 0
    /\ changed = {}
    /\ succeeded = EmptyMap
    /\ idle = {}
    /\ last = Did("new QueryClient", "call", "-", "-", "-", NoOutcome, <<>>, <<>>, <<>>, "return", "-")

\* ---------------------------------------------------------------- methods

\* use(plugin): a hooks object is appended, a void result is not.
use(plugin) ==
    /\ plugin.void \/ Len(pluginHooks) < MaxPlugins
    /\ pluginHooks' = IF plugin.void THEN pluginHooks ELSE Append(pluginHooks, plugin.hooks)
    /\ last' = Did("use", "call", "-", "-", "-", NoOutcome, <<>>, <<>>, <<>>, "return", Undefined)
    /\ UNCHANGED <<cache, subscribers, queryFns, pending>>

\* getQueryData as it would be if a missing entry read as null
\* (this.cache.get(key) ?? null).
getQueryDataOf_NullWhenAbsent(queryKey) ==
    IF MapHas(cache, CanonicalKey(queryKey)) THEN cache[CanonicalKey(queryKey)] ELSE "null"

\* getQueryData(queryKey): this.cache.get(key).
getQueryDataOf(queryKey) == MapGet(cache, CanonicalKey(queryKey))

getQueryData(queryKey) ==
    /\ last' = Did("getQueryData", "call", CanonicalKey(queryKey), "-", "-", NoOutcome,
                   <<>>, <<>>, <<>>, "return", getQueryDataOf(queryKey))
    /\ UNCHANGED <<store, pending>>

\* ensureQueryData as it would be without its cache check (lines 198-200).
ensureQueryData_NoCacheCheck(queryKey, queryFn) ==
    LET key == CanonicalKey(queryKey)
        start == runHook("onQueryStart", key, "-")
    IN  /\ Len(pending) < MaxInflight
        /\ pending' = Append(pending, Suspended("ensureQueryData", key, queryFn))
        /\ last' = Did("ensureQueryData", "call", key, queryFn, "-", NoOutcome,
                       start.calls, <<queryFn>>, <<>>, "pending", "-")
        /\ UNCHANGED store

\* ensureQueryData as it would be if a call that finds a fetch for its key in
\* flight waited for that fetch instead of starting its own.
ensureQueryData_Coalesces(queryKey, queryFn) ==
    LET key == CanonicalKey(queryKey)
        start == runHook("onQueryStart", key, "-")
        inflight == \E i \in 1..Len(pending) : pending[i].key = key
    IN  IF MapHas(cache, key)
        THEN /\ last' = Did("ensureQueryData", "call", key, queryFn, "-", NoOutcome,
                            <<>>, <<>>, <<>>, "return", MapGet(cache, key))
             /\ UNCHANGED <<store, pending>>
        ELSE /\ Len(pending) < MaxInflight
             /\ pending' = Append(pending, Suspended("ensureQueryData", key, queryFn))
             /\ last' = Did("ensureQueryData", "call", key, queryFn, "-", NoOutcome,
                            IF inflight THEN <<>> ELSE start.calls,
                            IF inflight THEN <<>> ELSE <<queryFn>>, <<>>, "pending", "-")
             /\ UNCHANGED store

\* ensureQueryData(queryKey, queryFn), up to its await: a cached entry is
\* returned at once; otherwise the start hooks run, queryFn() is called and
\* the method suspends. A throwing start hook rejects the method's promise
\* before queryFn is called.
\* (A queryFn that throws at once, or returns a plain value, behaves as one
\* whose promise settles before anything else runs: this step followed at
\* once by the resumption.)
ensureQueryData(queryKey, queryFn) ==
    LET key == CanonicalKey(queryKey)
        start == runHook("onQueryStart", key, "-")
    IN  IF MapHas(cache, key)
        THEN /\ last' = Did("ensureQueryData", "call", key, queryFn, "-", NoOutcome,
                            <<>>, <<>>, <<>>, "return", MapGet(cache, key))
             /\ UNCHANGED <<store, pending>>
        ELSE IF start.threw
        THEN /\ last' = Did("ensureQueryData", "call", key, queryFn, "-", NoOutcome,
                            start.calls, <<>>, <<>>, "throw", HookError)
             /\ UNCHANGED <<store, pending>>
        ELSE /\ Len(pending) < MaxInflight
             /\ pending' = Append(pending, Suspended("ensureQueryData", key, queryFn))
             /\ last' = Did("ensureQueryData", "call", key, queryFn, "-", NoOutcome,
                            start.calls, <<queryFn>>, <<>>, "pending", "-")
             /\ UNCHANGED store

\* fetchQuery as it would be if it remembered queryFn before calling it
\* (line 233 moved before the try).
fetchQuery_RemembersAtIssue(queryKey, queryFn) ==
    LET key == CanonicalKey(queryKey)
        start == runHook("onQueryStart", key, "-")
    IN  /\ Len(pending) < MaxInflight
        /\ pending' = Append(pending, Suspended("fetchQuery", key, queryFn))
        /\ queryFns' = MapSet(queryFns, key, queryFn)
        /\ last' = Did("fetchQuery", "call", key, queryFn, "-", NoOutcome,
                       start.calls, <<queryFn>>, <<>>, "pending", "-")
        /\ UNCHANGED <<cache, subscribers, pluginHooks>>

\* fetchQuery(queryKey, queryFn), up to its await.
fetchQuery(queryKey, queryFn) ==
    LET key == CanonicalKey(queryKey)
        start == runHook("onQueryStart", key, "-")
    IN  IF start.threw
        THEN /\ last' = Did("fetchQuery", "call", key, queryFn, "-", NoOutcome,
                            start.calls, <<>>, <<>>, "throw", HookError)
             /\ UNCHANGED <<store, pending>>
        ELSE /\ Len(pending) < MaxInflight
             /\ pending' = Append(pending, Suspended("fetchQuery", key, queryFn))
             /\ last' = Did("fetchQuery", "call", key, queryFn, "-", NoOutcome,
                            start.calls, <<queryFn>>, <<>>, "pending", "-")
             /\ UNCHANGED store

\* throw new Error(`No query function found for key: ${key}`)
NoQueryFnError(key) == "No query function found for key: " \o key

\* refetch as it would be if a missing query function made it return
\* undefined instead of throwing (line 254 replaced by a bare return).
refetch_ReturnsUndefined(queryKey) ==
    LET key == CanonicalKey(queryKey)
        queryFn == MapGet(queryFns, key)
        start == runHook("onQueryStart", key, "-")
    IN  IF ~Truthy(queryFn)
        THEN /\ last' = Did("refetch", "call", key, "-", "-", NoOutcome,
                            <<>>, <<>>, <<>>, "return", Undefined)
             /\ UNCHANGED <<store, pending>>
        ELSE /\ Len(pending) < MaxInflight
             /\ pending' = Append(pending, Suspended("refetch", key, queryFn))
             /\ last' = Did("refetch", "call", key, queryFn, "-", NoOutcome, start.calls,
                            <<queryFn>>, <<>>, "pending", "-")
             /\ UNCHANGED store

\* refetch as it would be if it dropped the entry before fetching
\* (this.cache.delete(key) added before line 256).
refetch_EvictsFirst(queryKey) ==
    LET key == CanonicalKey(queryKey)
        queryFn == MapGet(queryFns, key)
        start == runHook("onQueryStart", key, "-")
    IN  IF ~Truthy(queryFn)
        THEN /\ last' = Did("refetch", "call", key, "-", "-", NoOutcome,
                            <<>>, <<>>, <<>>, "throw", NoQueryFnError(key))
             /\ UNCHANGED <<store, pending>>
        ELSE /\ Len(pending) < MaxInflight
             /\ pending' = Append(pending, Suspended("refetch", key, queryFn))
             /\ cache' = MapDelete(cache, key)
             /\ last' = Did("refetch", "call", key, queryFn, "-", NoOutcome, start.calls,
                            <<queryFn>>, <<>>, "pending", "-")
             /\ UNCHANGED <<subscribers, queryFns, pluginHooks>>

\* refetch(queryKey), up to its await: without a remembered query function it
\* throws; otherwise it calls this.fetchQuery(queryKey, queryFn), which runs
\* up to its own await (or rejects at once when a start hook throws), and
\* refetch suspends on fetchQuery's promise.
refetch(queryKey) ==
    LET key == CanonicalKey(queryKey)
        queryFn == MapGet(queryFns, key)
        start == runHook("onQueryStart", key, "-")
    IN  IF ~Truthy(queryFn)
        THEN /\ last' = Did("refetch", "call", key, "-", "-", NoOutcome,
                            <<>>, <<>>, <<>>, "throw", NoQueryFnError(key))
             /\ UNCHANGED <<store, pending>>
        ELSE /\ Len(pending) < MaxInflight
             /\ pending' = Append(pending,
                    IF start.threw
                    THEN [Suspended("refetch", key, queryFn) EXCEPT
                             !.stage = "fetchQuery",
                             !.settled = [kind |-> "throw", v |-> HookError]]
                    ELSE Suspended("refetch", key, queryFn))
             /\ last' = Did("refetch", "call", key, queryFn, "-", NoOutcome, start.calls,
                            IF start.threw THEN <<>> ELSE <<queryFn>>, <<>>, "pending", "-")
             /\ UNCHANGED store

\* The try block of ensureQueryData as it would be without
\* this.cache.set(key, data) (line 206).
ensureQueryDataSettled_NoCacheSet(key, queryFn, outcome) ==
    IF outcome.ok
    THEN [cache |-> cache,
          queryFns |-> MapSet(queryFns, key, queryFn),
          hooks |-> runHook("onQuerySuccess", key, outcome.v).calls,
          result |-> [kind |-> "return", v |-> outcome.v]]
    ELSE [cache |-> cache,
          queryFns |-> queryFns,
          hooks |-> runHook("onQueryError", key, outcome.v).calls,
          result |-> [kind |-> "throw", v |-> outcome.v]]

\* The catch of ensureQueryData as it would be without `throw error`
\* (line 212): a failure resolves the method's promise to undefined.
ensureQueryDataSettled_SwallowsFailure(key, queryFn, outcome) ==
    IF outcome.ok
    THEN [cache |-> MapSet(cache, key, outcome.v),
          queryFns |-> MapSet(queryFns, key, queryFn),
          hooks |-> runHook("onQuerySuccess", key, outcome.v).calls,
          result |-> [kind |-> "return", v |-> outcome.v]]
    ELSE [cache |-> cache,
          queryFns |-> queryFns,
          hooks |-> runHook("onQueryError", key, outcome.v).calls,
          result |-> [kind |-> "return", v |-> Undefined]]

\* The try block of ensureQueryData as it would be without
\* this.queryFns.set(key, queryFn) (line 207).
ensureQueryDataSettled_ForgetsFn(key, queryFn, outcome) ==
    IF outcome.ok
    THEN [cache |-> MapSet(cache, key, outcome.v),
          queryFns |-> queryFns,
          hooks |-> runHook("onQuerySuccess", key, outcome.v).calls,
          result |-> [kind |-> "return", v |-> outcome.v]]
    ELSE [cache |-> cache,
          queryFns |-> queryFns,
          hooks |-> runHook("onQueryError", key, outcome.v).calls,
          result |-> [kind |-> "throw", v |-> outcome.v]]

\* The try block of ensureQueryData once queryFn's promise has settled as
\* `outcome`: what the cache and the query functions become, the hook calls
\* made, and how the method's promise settles. A throw of the success hook
\* happens inside the try, so the catch runs the error hooks with it.
ensureQueryDataSettled(key, queryFn, outcome) ==
    IF outcome.ok
    THEN LET success == runHook("onQuerySuccess", key, outcome.v)
             error == runHook("onQueryError", key, HookError)
         IN [cache |-> MapSet(cache, key, outcome.v),
             queryFns |-> MapSet(queryFns, key, queryFn),
             hooks |-> IF success.threw THEN success.calls \o error.calls ELSE success.calls,
             result |-> IF success.threw THEN [kind |-> "throw", v |-> HookError]
                        ELSE [kind |-> "return", v |-> outcome.v]]
    ELSE LET error == runHook("onQueryError", key, outcome.v)
         IN [cache |-> cache,
             queryFns |-> queryFns,
             hooks |-> error.calls,
             result |-> [kind |-> "throw", v |-> IF error.threw THEN HookError ELSE outcome.v]]

\* The try block of fetchQuery as it would be if it kept an existing entry
\* (line 232 guarded by !this.cache.has(key)).
fetchQuerySettled_KeepsExisting(key, queryFn, outcome) ==
    IF outcome.ok
    THEN [cache |-> IF MapHas(cache, key) THEN cache ELSE MapSet(cache, key, outcome.v),
          queryFns |-> MapSet(queryFns, key, queryFn),
          hooks |-> runHook("onQuerySuccess", key, outcome.v).calls,
          result |-> [kind |-> "return", v |-> outcome.v]]
    ELSE [cache |-> cache,
          queryFns |-> queryFns,
          hooks |-> runHook("onQueryError", key, outcome.v).calls,
          result |-> [kind |-> "throw", v |-> outcome.v]]

\* The try block of fetchQuery as it would be if its catch dropped the entry
\* (this.cache.delete(key) added before line 237).
fetchQuerySettled_FailureEvicts(key, queryFn, outcome) ==
    IF outcome.ok
    THEN [cache |-> MapSet(cache, key, outcome.v),
          queryFns |-> MapSet(queryFns, key, queryFn),
          hooks |-> runHook("onQuerySuccess", key, outcome.v).calls,
          result |-> [kind |-> "return", v |-> outcome.v]]
    ELSE [cache |-> MapDelete(cache, key),
          queryFns |-> queryFns,
          hooks |-> runHook("onQueryError", key, outcome.v).calls,
          result |-> [kind |-> "throw", v |-> outcome.v]]

\* The try block of fetchQuery as it would be if its catch stored the error
\* as the entry (this.cache.set(key, error) added before line 237).
fetchQuerySettled_CachesFailure(key, queryFn, outcome) ==
    IF outcome.ok
    THEN [cache |-> MapSet(cache, key, outcome.v),
          queryFns |-> MapSet(queryFns, key, queryFn),
          hooks |-> runHook("onQuerySuccess", key, outcome.v).calls,
          result |-> [kind |-> "return", v |-> outcome.v]]
    ELSE [cache |-> MapSet(cache, key, outcome.v),
          queryFns |-> queryFns,
          hooks |-> runHook("onQueryError", key, outcome.v).calls,
          result |-> [kind |-> "throw", v |-> outcome.v]]

\* The try block of fetchQuery as it would be if queryFn were remembered
\* whatever the outcome (line 233 moved into a finally).
fetchQuerySettled_RemembersOnFailure(key, queryFn, outcome) ==
    IF outcome.ok
    THEN [cache |-> MapSet(cache, key, outcome.v),
          queryFns |-> MapSet(queryFns, key, queryFn),
          hooks |-> runHook("onQuerySuccess", key, outcome.v).calls,
          result |-> [kind |-> "return", v |-> outcome.v]]
    ELSE [cache |-> cache,
          queryFns |-> MapSet(queryFns, key, queryFn),
          hooks |-> runHook("onQueryError", key, outcome.v).calls,
          result |-> [kind |-> "throw", v |-> outcome.v]]

\* The try block of fetchQuery once queryFn's promise has settled.
fetchQuerySettled(key, queryFn, outcome) ==
    IF outcome.ok
    THEN LET success == runHook("onQuerySuccess", key, outcome.v)
             error == runHook("onQueryError", key, HookError)
         IN [cache |-> MapSet(cache, key, outcome.v),
             queryFns |-> MapSet(queryFns, key, queryFn),
             hooks |-> IF success.threw THEN success.calls \o error.calls ELSE success.calls,
             result |-> IF success.threw THEN [kind |-> "throw", v |-> HookError]
                        ELSE [kind |-> "return", v |-> outcome.v]]
    ELSE LET error == runHook("onQueryError", key, outcome.v)
         IN [cache |-> cache,
             queryFns |-> queryFns,
             hooks |-> error.calls,
             result |-> [kind |-> "throw", v |-> IF error.threw THEN HookError ELSE outcome.v]]

\* ensureQueryData resumes after `await queryFn()` and runs to its end.
ensureQueryDataResume(i, outcome) ==
    /\ i \in 1..Len(pending)
    /\ pending[i].op = "ensureQueryData"
    /\ pending[i].stage = "queryFn"
    /\ LET p == pending[i]
           r == ensureQueryDataSettled(p.key, p.fn, outcome)
       IN /\ cache' = r.cache
          /\ queryFns' = r.queryFns
          /\ pending' = RemoveAt(pending, i)
          /\ last' = [Did("ensureQueryData", "queryFn settled", p.key, p.fn, "-", outcome,
                          r.hooks, <<>>, <<>>, r.result.kind, r.result.v)
                      EXCEPT !.pos = i]
    /\ UNCHANGED <<subscribers, pluginHooks>>

\* fetchQuery resumes after `await queryFn()` and runs to its end.
fetchQueryResume(i, outcome) ==
    /\ i \in 1..Len(pending)
    /\ pending[i].op = "fetchQuery"
    /\ pending[i].stage = "queryFn"
    /\ LET p == pending[i]
           r == fetchQuerySettled(p.key, p.fn, outcome)
       IN /\ cache' = r.cache
          /\ queryFns' = r.queryFns
          /\ pending' = RemoveAt(pending, i)
          /\ last' = [Did("fetchQuery", "queryFn settled", p.key, p.fn, "-", outcome,
                          r.hooks, <<>>, <<>>, r.result.kind, r.result.v)
                      EXCEPT !.pos = i]
    /\ UNCHANGED <<subscribers, pluginHooks>>

\* The fetchQuery that refetch called resumes after `await queryFn()` and
\* runs to its end; its promise settles, and refetch, suspended on that
\* promise, resumes in a later turn.
refetchFetchQueryResume(i, outcome) ==
    /\ i \in 1..Len(pending)
    /\ pending[i].op = "refetch"
    /\ pending[i].stage = "queryFn"
    /\ LET p == pending[i]
           r == fetchQuerySettled(p.key, p.fn, outcome)
       IN /\ cache' = r.cache
          /\ queryFns' = r.queryFns
          /\ pending' = [pending EXCEPT ![i].stage = "fetchQuery",
                                         ![i].settled = r.result,
                                         ![i].atSettle =
                                             [Before(p.key) EXCEPT
                                                 !.has = MapHas(r.cache, p.key),
                                                 !.value = MapGet(r.cache, p.key),
                                                 !.fn = MapGet(r.queryFns, p.key)]]
          /\ last' = Did("refetch", "queryFn settled", p.key, p.fn, "-", outcome,
                         r.hooks, <<>>, <<>>, "pending", "-")
    /\ UNCHANGED <<subscribers, pluginHooks>>

\* The notification as it would be if the callbacks were called newest first
\* (callbacks that do nothing to the client).
notifySubscribers_NewestFirst(key, seen) ==
    [NoRound EXCEPT !.notified = Reversed(SubsOf(key))]

\* this.subscribers.get(key)!.forEach((callback) => callback()), guarded by
\* this.subscribers.has(key): the round of notification over the Set of the
\* key, the cache being `seen` while it runs.
notifySubscribers(key, seen) ==
    IF MapHas(subscribers, key)
    THEN LET r == ForEachFrom(StartRound(key), 1, key, seen, MaxVisits)
         IN Round(MapSet(subscribers, key, SelectSeq(r.entries, LAMBDA e : e # Empty)),
                  r.pending, r.hooks, r.called, r.notified, r.reads, r.done)
    ELSE NoRound

\* refetch's resumption as it would be if a rejection of fetchQuery were
\* caught around line 256 and the subscribers were called all the same.
refetchResume_NotifiesOnFailure(i) ==
    /\ i \in 1..Len(pending)
    /\ pending[i].op = "refetch"
    /\ pending[i].stage = "fetchQuery"
    /\ LET p == pending[i]
           did == Did("refetch", "fetchQuery settled", p.key, p.fn, "-",
                      [ok |-> p.settled.kind = "return", v |-> p.settled.v],
                      <<>>, <<>>,
                      IF MapHas(subscribers, p.key) THEN subscribers[p.key] ELSE <<>>,
                      p.settled.kind, p.settled.v)
       IN last' = [did EXCEPT !.atSettle = p.atSettle]
    /\ pending' = RemoveAt(pending, i)
    /\ UNCHANGED store

\* refetch resumes after `await this.fetchQuery(...)`: a rejection is thrown
\* on to the caller; otherwise the subscribers are called and data returned.
refetchResume(i) ==
    /\ i \in 1..Len(pending)
    /\ pending[i].op = "refetch"
    /\ pending[i].stage = "fetchQuery"
    /\ LET p == pending[i]
           round == IF p.settled.kind = "return" THEN notifySubscribers(p.key, cache)
                    ELSE NoRound
           did == Did("refetch", "fetchQuery settled", p.key, p.fn, "-",
                      [ok |-> p.settled.kind = "return", v |-> p.settled.v],
                      round.hooks, round.called, round.notified,
                      IF round.done THEN p.settled.kind ELSE "hang", p.settled.v)
       IN /\ Len(round.pending) <= MaxInflight + 1
          /\ last' = [did EXCEPT !.atSettle = p.atSettle, !.reads = round.reads]
          /\ pending' = RemoveAt(round.pending, i)
          /\ subscribers' = round.subscribers
    /\ UNCHANGED <<cache, queryFns, pluginHooks>>

\* invalidateQuery as it would be if it also forgot the query function
\* (this.queryFns.delete(key) added after line 272).
invalidateQuery_ForgetsFn(queryKey, shouldRefetchOnInvalidate) ==
    LET key == CanonicalKey(queryKey)
        hooks == runHook("onInvalidate", key, "-")
    IN  /\ cache' = MapDelete(cache, key)
        /\ queryFns' = MapDelete(queryFns, key)
        /\ last' = Did("invalidateQuery", "call", key, "-", shouldRefetchOnInvalidate, NoOutcome,
                       hooks.calls, <<>>,
                       IF Truthy(shouldRefetchOnInvalidate)
                       THEN (IF MapHas(subscribers, key) THEN subscribers[key] ELSE <<>>)
                       ELSE <<>>,
                       "return", Undefined)
        /\ UNCHANGED <<subscribers, pluginHooks, pending>>

\* invalidateQuery as it would be without this.cache.delete(key) (line 272).
invalidateQuery_KeepsEntry(queryKey, shouldRefetchOnInvalidate) ==
    LET key == CanonicalKey(queryKey)
        hooks == runHook("onInvalidate", key, "-")
    IN  /\ last' = Did("invalidateQuery", "call", key, "-", shouldRefetchOnInvalidate, NoOutcome,
                       hooks.calls, <<>>,
                       IF Truthy(shouldRefetchOnInvalidate)
                       THEN (IF MapHas(subscribers, key) THEN subscribers[key] ELSE <<>>)
                       ELSE <<>>,
                       "return", Undefined)
        /\ UNCHANGED <<store, pending>>

\* invalidateQuery as it would be if the entry were deleted only when the
\* subscribers are to be called (line 272 moved into the if of line 275).
invalidateQuery_DeletesOnlyWhenNotifying(queryKey, shouldRefetchOnInvalidate) ==
    LET key == CanonicalKey(queryKey)
        hooks == runHook("onInvalidate", key, "-")
    IN  /\ cache' = IF Truthy(shouldRefetchOnInvalidate) THEN MapDelete(cache, key) ELSE cache
        /\ last' = Did("invalidateQuery", "call", key, "-", shouldRefetchOnInvalidate, NoOutcome,
                       hooks.calls, <<>>,
                       IF Truthy(shouldRefetchOnInvalidate) THEN SubsOf(key) ELSE <<>>,
                       "return", Undefined)
        /\ UNCHANGED <<subscribers, queryFns, pluginHooks, pending>>

\* invalidateQuery as it would be if it emptied the whole cache
\* (this.cache.clear() in place of line 272).
invalidateQuery_ClearsCache(queryKey, shouldRefetchOnInvalidate) ==
    LET key == CanonicalKey(queryKey)
        hooks == runHook("onInvalidate", key, "-")
    IN  /\ cache' = EmptyMap
        /\ last' = Did("invalidateQuery", "call", key, "-", shouldRefetchOnInvalidate, NoOutcome,
                       hooks.calls, <<>>,
                       IF Truthy(shouldRefetchOnInvalidate) THEN SubsOf(key) ELSE <<>>,
                       "return", Undefined)
        /\ UNCHANGED <<subscribers, queryFns, pluginHooks, pending>>

\* invalidateQuery as it would be if the invalidate hooks ran before the
\* entry is deleted (line 273 moved before line 272).
invalidateQuery_HooksBeforeDelete(queryKey, shouldRefetchOnInvalidate) ==
    LET key == CanonicalKey(queryKey)
        hooks == runHook("onInvalidate", key, "-")
    IN  /\ cache' = IF hooks.threw THEN cache ELSE MapDelete(cache, key)
        /\ last' = Did("invalidateQuery", "call", key, "-", shouldRefetchOnInvalidate, NoOutcome,
                       hooks.calls, <<>>,
                       IF ~hooks.threw /\ Truthy(shouldRefetchOnInvalidate)
                       THEN SubsOf(key) ELSE <<>>,
                       IF hooks.threw THEN "throw" ELSE "return",
                       IF hooks.threw THEN HookError ELSE Undefined)
        /\ UNCHANGED <<subscribers, queryFns, pluginHooks, pending>>

\* invalidateQuery as it would be if the entry were deleted last, after the
\* hooks and the notification (line 272 moved after line 277).
invalidateQuery_DeletesLast(queryKey, shouldRefetchOnInvalidate) ==
    LET key == CanonicalKey(queryKey)
        hooks == runHook("onInvalidate", key, "-")
        round == IF ~hooks.threw /\ Truthy(shouldRefetchOnInvalidate)
                 THEN notifySubscribers(key, cache) ELSE NoRound
        did == Did("invalidateQuery", "call", key, "-", shouldRefetchOnInvalidate, NoOutcome,
                   hooks.calls \o round.hooks, round.called, round.notified,
                   IF hooks.threw THEN "throw" ELSE IF round.done THEN "return" ELSE "hang",
                   IF hooks.threw THEN HookError ELSE Undefined)
    IN  /\ Len(round.pending) <= MaxInflight
        /\ cache' = IF hooks.threw THEN cache ELSE MapDelete(cache, key)
        /\ subscribers' = round.subscribers
        /\ pending' = round.pending
        /\ last' = [did EXCEPT !.reads = HookReads(hooks.calls, cache) \o round.reads]
        /\ UNCHANGED <<queryFns, pluginHooks>>

\* invalidateQuery(queryKey, shouldRefetchOnInvalidate): the entry is deleted,
\* the invalidate hooks run (a throwing one ends the method), and the
\* subscribers are called when the argument is truthy.
invalidateQuery(queryKey, shouldRefetchOnInvalidate) ==
    LET key == CanonicalKey(queryKey)
        deleted == MapDelete(cache, key)
        hooks == runHook("onInvalidate", key, "-")
        round == IF ~hooks.threw /\ Truthy(shouldRefetchOnInvalidate)
                 THEN notifySubscribers(key, deleted) ELSE NoRound
        did == Did("invalidateQuery", "call", key, "-", shouldRefetchOnInvalidate, NoOutcome,
                   hooks.calls \o round.hooks, round.called, round.notified,
                   IF hooks.threw THEN "throw" ELSE IF round.done THEN "return" ELSE "hang",
                   IF hooks.threw THEN HookError ELSE Undefined)
    IN  /\ Len(round.pending) <= MaxInflight
        /\ cache' = deleted
        /\ subscribers' = round.subscribers
        /\ pending' = round.pending
        /\ last' = [did EXCEPT !.reads = HookReads(hooks.calls, deleted) \o round.reads]
        /\ UNCHANGED <<queryFns, pluginHooks>>

\* subscribe(queryKey, callback)
subscribe(queryKey, callback) ==
    LET key == CanonicalKey(queryKey)
        created == IF MapHas(subscribers, key) THEN subscribers
                   ELSE MapSet(subscribers, key, <<>>)
    IN  /\ subscribers' = MapSet(created, key, SetAdd(MapGet(created, key), callback))
        /\ last' = Did("subscribe", "call", key, callback, "-", NoOutcome, <<>>, <<>>, <<>>, "return", Undefined)
        /\ UNCHANGED <<cache, queryFns, pluginHooks, pending>>

\* unsubscribe(queryKey, callback): this.subscribers.get(key)?.delete(callback)
unsubscribe(queryKey, callback) ==
    LET key == CanonicalKey(queryKey) IN
    /\ subscribers' = IF MapHas(subscribers, key)
                      THEN MapSet(subscribers, key, SetDelete(MapGet(subscribers, key), callback))
                      ELSE subscribers
    /\ last' = Did("unsubscribe", "call", key, callback, "-", NoOutcome, <<>>, <<>>, <<>>, "return", Undefined)
    /\ UNCHANGED <<cache, queryFns, pluginHooks, pending>>

\* The Solid useQuery(queryKey, queryFn) of a component that is created: the
\* first effect calls fetchData(), the second subscribes handleInvalidation
\* to the key.
solidUseQuery(queryKey) ==
    LET key == CanonicalKey(queryKey)
        cb == "handleInvalidation"
        r == fetchData(StartRound(key), key, BindingFn(cb), cache)
    IN  /\ cb \notin SeqRange(SubsOf(key))
        /\ Len(r.pending) <= MaxInflight
        /\ pending' = r.pending
        /\ subscribers' = MapSet(subscribers, key, SetAdd(SubsOf(key), cb))
        /\ last' = Did("useQuery (Solid)", "call", key, BindingFn(cb), "-", NoOutcome,
                       r.hooks, r.called, <<>>, "return", Undefined)
        /\ UNCHANGED <<cache, queryFns, pluginHooks>>

\* The React useQuery(queryKey, queryFn) of a component that is mounted: the
\* render reads getSnapshot, useSyncExternalStore calls subscribe with its
\* onStoreChange, and the effect calls fetchData().
reactUseQuery(queryKey) ==
    LET key == CanonicalKey(queryKey)
        cb == "onStoreChange"
        r == fetchData(StartRound(key), key, BindingFn(cb), cache)
        did == Did("useQuery (React)", "call", key, BindingFn(cb), "-", NoOutcome,
                   r.hooks, r.called, <<>>, "return", Undefined)
    IN  /\ cb \notin SeqRange(SubsOf(key))
        /\ Len(r.pending) <= MaxInflight
        /\ pending' = r.pending
        /\ subscribers' = MapSet(subscribers, key, SetAdd(SubsOf(key), cb))
        /\ last' = [did EXCEPT !.reads = <<Read("getSnapshot", getQueryDataOf(queryKey))>>]
        /\ UNCHANGED <<cache, queryFns, pluginHooks>>

\* The component is disposed of (Solid's onCleanup) or unmounted (the
\* function React's subscribe returned): the callback is unsubscribed.
cleanup(queryKey, callback) ==
    /\ callback \in SeqRange(SubsOf(CanonicalKey(queryKey)))
    /\ unsubscribe(queryKey, callback)

\* ---------------------------------------------------------- specification

\* A step is a method call by some caller, or the resumption of a suspended
\* call once the promise it awaits has settled.
\* (Nothing runs any more once a step has failed to return.)
Call == calls < MaxCalls /\ last.result.kind # "hang" /\ calls' = calls + 1
Resume == last.result.kind # "hang" /\ UNCHANGED calls

\* Whether a Map holds something else for key k after the step.
SlotChanged(m, n, k) ==
    \/ (k \in DOMAIN m) # (k \in DOMAIN n)
    \/ k \in DOMAIN m /\ k \in DOMAIN n /\ m[k] # n[k]

\* The slots the step changed, as <<structure, key>>.
Changed ==
    {<<"cache", k>> : k \in {x \in Keys : SlotChanged(cache, cache', x)}}
    \cup {<<"queryFns", k>> : k \in {x \in Keys : SlotChanged(queryFns, queryFns', x)}}
    \cup {<<"subscribers", k>> : k \in {x \in Keys : SlotChanged(subscribers, subscribers', x)}}
    \cup (IF pluginHooks' # pluginHooks THEN {<<"pluginHooks", "-">>} ELSE {})

\* The query function of the latest fetch that resolved, per key: set when
\* a query function's promise resolves with a value.
Succeeded ==
    IF last'.phase = "queryFn settled" /\ last'.outcome.ok
    THEN MapSet(succeeded, last'.key, last'.fn)
    ELSE succeeded

\* The keys for which invalidateQuery(key, false) has been called and none of
\* ensureQueryData, fetchQuery and refetch has been called since.
Idle ==
    IF last'.phase = "call" /\ last'.op = "invalidateQuery" /\ last'.arg = "false"
    THEN idle \cup {last'.key}
    ELSE IF \/ last'.phase = "call" /\ last'.op \in {"ensureQueryData", "fetchQuery", "refetch"}
            \/ last'.called # <<>>
    THEN idle \ {last'.key}
    ELSE idle

\* Every step records what it changed and what has happened so far.
Observed ==
    /\ changed' = Changed
    /\ succeeded' = Succeeded
    /\ idle' = Idle

Next ==
    \/ \E plugin \in CalmPlugins : Call /\ use(plugin) /\ Observed
    \/ \E queryKey \in OneKey : Call /\ getQueryData(queryKey) /\ Observed
    \/ \E queryKey \in OneKey, queryFn \in Fns : Call /\ ensureQueryData(queryKey, queryFn) /\ Observed
    \/ \E queryKey \in OneKey, queryFn \in Fns : Call /\ fetchQuery(queryKey, queryFn) /\ Observed
    \/ \E queryKey \in OneKey : Call /\ refetch(queryKey) /\ Observed
    \/ \E i \in 1..MaxInflight, outcome \in Outcomes : Resume /\ ensureQueryDataResume(i, outcome) /\ Observed
    \/ \E i \in 1..MaxInflight, outcome \in Outcomes : Resume /\ fetchQueryResume(i, outcome) /\ Observed
    \/ \E i \in 1..MaxInflight, outcome \in Outcomes : Resume /\ refetchFetchQueryResume(i, outcome) /\ Observed
    \/ \E i \in 1..MaxInflight : Resume /\ refetchResume(i) /\ Observed
    \/ \E queryKey \in OneKey, arg \in RefetchArgs : Call /\ invalidateQuery(queryKey, arg) /\ Observed
    \/ \E queryKey \in OneKey, callback \in Callbacks : Call /\ subscribe(queryKey, callback) /\ Observed
    \/ \E queryKey \in OneKey, callback \in Callbacks : Call /\ unsubscribe(queryKey, callback) /\ Observed

\* Callers whose plugins' hooks all return.
Spec == Init /\ [][Next]_vars

\* Callers that also register plugins with a throwing hook.
NextThrow ==
    \/ Next
    \/ \E plugin \in ThrowingPlugins : Call /\ use(plugin) /\ Observed

SpecThrow == Init /\ [][NextThrow]_vars

\* Callers that use two keys: every key argument (two arrays with the same
\* canonical form, and no key at all), with one plugin, one query function,
\* one value, one error and one callback.
OnePlugin == {Returns(PluginHooks("ok", "ok", "ok", "ok"))}
OneFn == {"F1"}
OneCallback == {"cb1"}
FewOutcomes == {[ok |-> TRUE, v |-> "v1"], [ok |-> FALSE, v |-> "E1"]}
FewRefetchArgs == {"true", "false"}

NextKeys ==
    \/ \E plugin \in OnePlugin : Call /\ use(plugin) /\ Observed
    \/ \E queryKey \in AllRawKeys : Call /\ getQueryData(queryKey) /\ Observed
    \/ \E queryKey \in AllRawKeys, queryFn \in OneFn : Call /\ ensureQueryData(queryKey, queryFn) /\ Observed
    \/ \E queryKey \in AllRawKeys, queryFn \in OneFn : Call /\ fetchQuery(queryKey, queryFn) /\ Observed
    \/ \E queryKey \in AllRawKeys : Call /\ refetch(queryKey) /\ Observed
    \/ \E i \in 1..MaxInflight, outcome \in FewOutcomes : Resume /\ ensureQueryDataResume(i, outcome) /\ Observed
    \/ \E i \in 1..MaxInflight, outcome \in FewOutcomes : Resume /\ fetchQueryResume(i, outcome) /\ Observed
    \/ \E i \in 1..MaxInflight, outcome \in FewOutcomes : Resume /\ refetchFetchQueryResume(i, outcome) /\ Observed
    \/ \E i \in 1..MaxInflight : Resume /\ refetchResume(i) /\ Observed
    \/ \E queryKey \in AllRawKeys, arg \in FewRefetchArgs : Call /\ invalidateQuery(queryKey, arg) /\ Observed
    \/ \E queryKey \in AllRawKeys, callback \in OneCallback : Call /\ subscribe(queryKey, callback) /\ Observed
    \/ \E queryKey \in AllRawKeys, callback \in OneCallback : Call /\ unsubscribe(queryKey, callback) /\ Observed

SpecKeys == Init /\ [][NextKeys]_vars

\* Callers that register plugins whose invalidate hook may throw, with one
\* key, one query function, one value, one error and one callback.
InvalidatePlugins ==
    { Returns(PluginHooks("ok", "ok", "ok", "ok")),
      Returns(PluginHooks("ok", "ok", "ok", "throw")) }

NextInvalidateThrows ==
    \/ \E plugin \in InvalidatePlugins : Call /\ use(plugin) /\ Observed
    \/ \E queryKey \in OneKey : Call /\ getQueryData(queryKey) /\ Observed
    \/ \E queryKey \in OneKey, queryFn \in OneFn : Call /\ ensureQueryData(queryKey, queryFn) /\ Observed
    \/ \E queryKey \in OneKey, queryFn \in OneFn : Call /\ fetchQuery(queryKey, queryFn) /\ Observed
    \/ \E queryKey \in OneKey : Call /\ refetch(queryKey) /\ Observed
    \/ \E i \in 1..MaxInflight, outcome \in FewOutcomes : Resume /\ ensureQueryDataResume(i, outcome) /\ Observed
    \/ \E i \in 1..MaxInflight, outcome \in FewOutcomes : Resume /\ fetchQueryResume(i, outcome) /\ Observed
    \/ \E i \in 1..MaxInflight, outcome \in FewOutcomes : Resume /\ refetchFetchQueryResume(i, outcome) /\ Observed
    \/ \E i \in 1..MaxInflight : Resume /\ refetchResume(i) /\ Observed
    \/ \E queryKey \in OneKey, arg \in FewRefetchArgs : Call /\ invalidateQuery(queryKey, arg) /\ Observed
    \/ \E queryKey \in OneKey, callback \in OneCallback : Call /\ subscribe(queryKey, callback) /\ Observed
    \/ \E queryKey \in OneKey, callback \in OneCallback : Call /\ unsubscribe(queryKey, callback) /\ Observed

SpecInvalidateThrows == Init /\ [][NextInvalidateThrows]_vars

\* Callers that pass objects in their keys and register no plugin, with one
\* query function, one value, one error and one callback.
NextCanon ==
    \/ \E queryKey \in CanonRawKeys : Call /\ getQueryData(queryKey) /\ Observed
    \/ \E queryKey \in CanonRawKeys, queryFn \in OneFn : Call /\ ensureQueryData(queryKey, queryFn) /\ Observed
    \/ \E queryKey \in CanonRawKeys, queryFn \in OneFn : Call /\ fetchQuery(queryKey, queryFn) /\ Observed
    \/ \E queryKey \in CanonRawKeys : Call /\ refetch(queryKey) /\ Observed
    \/ \E i \in 1..MaxInflight, outcome \in FewOutcomes : Resume /\ ensureQueryDataResume(i, outcome) /\ Observed
    \/ \E i \in 1..MaxInflight, outcome \in FewOutcomes : Resume /\ fetchQueryResume(i, outcome) /\ Observed
    \/ \E i \in 1..MaxInflight, outcome \in FewOutcomes : Resume /\ refetchFetchQueryResume(i, outcome) /\ Observed
    \/ \E i \in 1..MaxInflight : Resume /\ refetchResume(i) /\ Observed
    \/ \E queryKey \in CanonRawKeys, arg \in FewRefetchArgs : Call /\ invalidateQuery(queryKey, arg) /\ Observed
    \/ \E queryKey \in CanonRawKeys, callback \in OneCallback : Call /\ subscribe(queryKey, callback) /\ Observed
    \/ \E queryKey \in CanonRawKeys, callback \in OneCallback : Call /\ unsubscribe(queryKey, callback) /\ Observed

SpecCanon == Init /\ [][NextCanon]_vars

\* Callers whose subscriber callbacks call the client themselves and whose
\* plugin's invalidate hook reads the cache, with one key, one query function,
\* one value and one error.
ReadingPlugins == {Returns(PluginHooks("ok", "ok", "ok", "reads"))}
ReentrantCallbacks == {"reader", "fetcher", "resubscriber", "inviter"}

NextReentrant ==
    \/ \E plugin \in ReadingPlugins : Call /\ use(plugin) /\ Observed
    \/ \E queryKey \in OneKey, queryFn \in OneFn : Call /\ ensureQueryData(queryKey, queryFn) /\ Observed
    \/ \E queryKey \in OneKey : Call /\ refetch(queryKey) /\ Observed
    \/ \E i \in 1..MaxInflight, outcome \in FewOutcomes : Resume /\ ensureQueryDataResume(i, outcome) /\ Observed
    \/ \E i \in 1..MaxInflight, outcome \in FewOutcomes : Resume /\ refetchFetchQueryResume(i, outcome) /\ Observed
    \/ \E i \in 1..MaxInflight : Resume /\ refetchResume(i) /\ Observed
    \/ \E queryKey \in OneKey, arg \in FewRefetchArgs : Call /\ invalidateQuery(queryKey, arg) /\ Observed
    \/ \E queryKey \in OneKey, callback \in ReentrantCallbacks : Call /\ subscribe(queryKey, callback) /\ Observed
    \/ \E queryKey \in OneKey, callback \in ReentrantCallbacks : Call /\ unsubscribe(queryKey, callback) /\ Observed

SpecReentrant == Init /\ [][NextReentrant]_vars

\* Components that use the key through the Solid and the React useQuery
\* hook, one of each, and callers that invalidate the key; one value and one
\* error, and no plugin.
NextBindings ==
    \/ \E queryKey \in OneKey : Call /\ solidUseQuery(queryKey) /\ Observed
    \/ \E queryKey \in OneKey : Call /\ reactUseQuery(queryKey) /\ Observed
    \/ \E queryKey \in OneKey, callback \in BindingCallbacks : Call /\ cleanup(queryKey, callback) /\ Observed
    \/ \E queryKey \in OneKey : Call /\ getQueryData(queryKey) /\ Observed
    \/ \E i \in 1..MaxInflight, outcome \in FewOutcomes : Resume /\ ensureQueryDataResume(i, outcome) /\ Observed
    \/ \E queryKey \in OneKey, arg \in FewRefetchArgs : Call /\ invalidateQuery(queryKey, arg) /\ Observed

SpecBindings == Init /\ [][NextBindings]_vars

\* ------------------------------------------------------------------ claims

\* What the latest step was.
IsCall(op) == last.op = op /\ last.phase = "call"
IsSettled(op) == last.op = op /\ last.phase = "queryFn settled"
IsRefetchResumed == last.op = "refetch" /\ last.phase = "fetchQuery settled"

\* The key arguments that address the key of the latest step.
ArgsOfKey(key) == {q \in RawKeys : CanonicalKey(q) = key}

\* The calls of one hook that are due: one for each registered plugin that
\* supplies the hook, in registration order.
Supplying(hook) ==
    SelectSeq([i \in 1..Len(pluginHooks) |-> i], LAMBDA i : pluginHooks[i][hook] # "none")
DueHookCalls(hook, key, arg) ==
    [j \in 1..Len(Supplying(hook)) |-> HookCall(Supplying(hook)[j], hook, key, arg)]

\* s is t with some elements left out (the order kept).
RECURSIVE IsSubseq(_, _)
IsSubseq(s, t) ==
    IF s = <<>> THEN TRUE
    ELSE IF t = <<>> THEN FALSE
    ELSE IF Head(s) = Head(t) THEN IsSubseq(Tail(s), Tail(t))
    ELSE IsSubseq(s, Tail(t))

NoRepeats(s) == \A i, j \in 1..Len(s) : s[i] = s[j] => i = j

\* C1: an ensureQueryData(K, F) that finds no entry for K calls F, and when
\* F's promise resolves to V it stores V as the entry of K, remembers F as the
\* query function of K and resolves to V; getQueryData(K) then returns V.
C1_EnsureStoresAndReturns ==
    /\ (IsCall("ensureQueryData") /\ ~last.before.has) =>
           /\ last.called = <<last.fn>>
           /\ last.result.kind = "pending"
    /\ (IsSettled("ensureQueryData") /\ last.outcome.ok) =>
           /\ MapHas(cache, last.key)
           /\ cache[last.key] = last.outcome.v
           /\ MapHas(queryFns, last.key)
           /\ queryFns[last.key] = last.fn
           /\ last.result = [kind |-> "return", v |-> last.outcome.v]
           /\ \A q \in ArgsOfKey(last.key) : getQueryDataOf(q) = last.outcome.v

C1_Witness ==
    /\ IsSettled("ensureQueryData")
    /\ last.outcome = [ok |-> TRUE, v |-> "v1"]
    /\ ~last.before.has
    /\ last.result.kind = "return"

\* C2: an ensureQueryData(K, F) that finds an entry for K returns the entry's
\* value, calls neither F nor any plugin hook, and changes nothing in the
\* cache, the query functions, the subscriber sets and the plugin list.
C2_EnsureHitIsPure ==
    (IsCall("ensureQueryData") /\ last.before.has) =>
        /\ last.result = [kind |-> "return", v |-> last.before.value]
        /\ last.called = <<>>
        /\ last.hooks = <<>>
        /\ last.notified = <<>>
        /\ changed = {}

C2_Witness ==
    /\ IsCall("ensureQueryData")
    /\ last.before.has
    /\ last.before.fn # last.fn
    /\ Len(pluginHooks) > 0
    /\ pluginHooks[1].onQueryStart = "ok"

\* C3: fetchQuery(K, F) calls F on every call, with or without an entry for K,
\* and when F's promise resolves to V the entry of K is V afterwards (a former
\* value is overwritten) and F is the remembered query function of K.
C3_FetchQueryAlwaysFetches ==
    /\ IsCall("fetchQuery") =>
           /\ last.called = <<last.fn>>
           /\ last.result.kind = "pending"
    /\ (IsSettled("fetchQuery") /\ last.outcome.ok) =>
           /\ MapHas(cache, last.key)
           /\ cache[last.key] = last.outcome.v
           /\ MapHas(queryFns, last.key)
           /\ queryFns[last.key] = last.fn

C3_Witness ==
    /\ IsSettled("fetchQuery")
    /\ last.outcome.ok
    /\ last.before.has
    /\ last.before.value # last.outcome.v
    /\ last.before.fn # last.fn

\* C4: when the query function of an ensureQueryData (on a miss) or of a
\* fetchQuery rejects, the onQueryError hook of every plugin that has one is
\* called with (key, error), in registration order, no other hook is called,
\* the same error is thrown on to the caller, and the entry and the remembered
\* query function of the key are what they were.
C4_FailedFetchChangesNothing ==
    ((IsSettled("ensureQueryData") \/ IsSettled("fetchQuery")) /\ ~last.outcome.ok) =>
        /\ last.hooks = DueHookCalls("onQueryError", last.key, last.outcome.v)
        /\ last.result = [kind |-> "throw", v |-> last.outcome.v]
        /\ changed = {}
        /\ MapHas(cache, last.key) = last.before.has
        /\ MapGet(cache, last.key) = last.before.value
        /\ MapGet(queryFns, last.key) = last.before.fn

C4_Witness ==
    /\ IsSettled("fetchQuery")
    /\ ~last.outcome.ok
    /\ last.before.has
    /\ last.before.fn # last.fn
    /\ Len(last.hooks) = 1
    /\ Len(pluginHooks) = 2

\* C5: refetch(K) for a key without a remembered query function throws the
\* error that names K, calls no plugin hook, no query function and no
\* subscriber callback, and changes nothing.
C5_RefetchWithoutFetcherThrows ==
    (IsCall("refetch") /\ ~Truthy(last.before.fn)) =>
        /\ last.result = [kind |-> "throw",
                          v |-> "No query function found for key: " \o last.key]
        /\ last.hooks = <<>>
        /\ last.called = <<>>
        /\ last.notified = <<>>
        /\ changed = {}

C5_Witness ==
    /\ IsCall("refetch")
    /\ ~Truthy(last.before.fn)
    /\ last.result.kind = "throw"
    /\ last.before.subs # <<>>
    /\ Len(pluginHooks) > 0
    /\ pluginHooks[1].onQueryStart = "ok"

\* C6: a successful ensureQueryData(K, F) remembers F, invalidateQuery leaves
\* the remembered query function alone, and a refetch(K) that finds F
\* remembered calls F again; when F's promise resolves to V the entry of K
\* becomes V and refetch, once it resumes, resolves to V.
C6_RefetchCallsRememberedFn ==
    /\ (IsSettled("ensureQueryData") /\ last.outcome.ok) =>
           MapGet(queryFns, last.key) = last.fn
    /\ IsCall("invalidateQuery") =>
           /\ MapGet(queryFns, last.key) = last.before.fn
           /\ \A c \in changed : c[1] # "queryFns"
    /\ (IsCall("refetch") /\ Truthy(last.before.fn)) =>
           /\ last.fn = last.before.fn
           /\ last.called = <<last.before.fn>>
           /\ last.result.kind = "pending"
    /\ (IsSettled("refetch") /\ last.outcome.ok) =>
           /\ MapHas(cache, last.key)
           /\ cache[last.key] = last.outcome.v
           /\ \E i \in 1..Len(pending) :
                  /\ pending[i].op = "refetch"
                  /\ pending[i].key = last.key
                  /\ pending[i].stage = "fetchQuery"
                  /\ pending[i].settled = [kind |-> "return", v |-> last.outcome.v]
    /\ (IsRefetchResumed /\ last.outcome.ok) =>
           last.result = [kind |-> "return", v |-> last.outcome.v]

C6_Witness ==
    /\ IsRefetchResumed
    /\ last.result = [kind |-> "return", v |-> "v2"]
    /\ MapHas(cache, last.key)
    /\ cache[last.key] = "v2"
    /\ MapGet(queryFns, last.key) = last.fn

\* C7 (as amended): when the fetchQuery of refetch(K) has resolved, refetch
\* resumes in a later step than the one that stored the entry and ran the
\* success hooks; it then calls every callback that is in K's subscriber set
\* at that moment, each once, in subscription order, calls no hook, changes
\* nothing and resolves to the fetched value in the same step. When the
\* fetch failed it calls no callback and throws the failure on.
C7_RefetchNotifiesOnResume ==
    /\ (IsCall("refetch") \/ IsSettled("refetch")) => last.notified = <<>>
    /\ (IsSettled("refetch") /\ last.outcome.ok) =>
           last.hooks = DueHookCalls("onQuerySuccess", last.key, last.outcome.v)
    /\ (IsRefetchResumed /\ last.outcome.ok) =>
           /\ last.atSettle.has
           /\ last.atSettle.value = last.outcome.v
           /\ last.notified = last.before.subs
           /\ NoRepeats(last.notified)
           /\ last.hooks = <<>>
           /\ changed = {}
           /\ last.result = [kind |-> "return", v |-> last.outcome.v]
    /\ (IsRefetchResumed /\ ~last.outcome.ok) =>
           /\ last.notified = <<>>
           /\ last.result = [kind |-> "throw", v |-> last.outcome.v]

C7_Witness ==
    /\ IsRefetchResumed
    /\ last.outcome.ok
    /\ last.notified = <<"cb2", "cb1">>

\* C7 (as claimed): every callback that was in K's subscriber set when the
\* fetch resolved (when the entry was stored) is called when refetch resumes,
\* in subscription order.
C7_NotifiesSetAtResolution ==
    (IsRefetchResumed /\ last.outcome.ok) => IsSubseq(last.atSettle.subs, last.notified)

\* C8: invalidateQuery(K, true) calls each callback subscribed to K exactly
\* once, in subscription order, within the call; invalidateQuery(K, false)
\* calls no callback.
C8_InvalidateNotifiesInOrder ==
    /\ (IsCall("invalidateQuery") /\ last.arg = "true") =>
           /\ last.notified = last.before.subs
           /\ NoRepeats(last.notified)
           /\ last.result.kind = "return"
    /\ (IsCall("invalidateQuery") /\ last.arg = "false") =>
           last.notified = <<>>

C8_Witness ==
    /\ IsCall("invalidateQuery")
    /\ last.arg = "true"
    /\ last.notified = <<"cb2", "cb1">>

\* C9 (as claimed): invalidateQuery(K) with shouldRefetchOnInvalidate left out
\* calls the subscribers of K, as invalidateQuery(K, true) does.
C9_OmittedArgumentNotifies ==
    (IsCall("invalidateQuery") /\ last.arg = Undefined) =>
        last.notified = last.before.subs

\* C10: whatever its second argument, invalidateQuery(K) leaves K without an
\* entry, so getQueryData(K) returns undefined; when K had no entry the cache
\* is left as it was; and an ensureQueryData(K, F) that finds no entry calls F.
C10_InvalidateRemovesEntry ==
    /\ IsCall("invalidateQuery") =>
           /\ ~MapHas(cache, last.key)
           /\ \A q \in ArgsOfKey(last.key) : getQueryDataOf(q) = Undefined
           /\ ~last.before.has => \A c \in changed : c[1] # "cache"
    /\ (IsCall("ensureQueryData") /\ ~last.before.has) => last.called = <<last.fn>>

C10_Witness ==
    /\ IsCall("invalidateQuery")
    /\ last.before.has
    /\ last.before.value = "v1"
    /\ ~MapHas(cache, last.key)
    /\ changed = {<<"cache", last.key>>}

\* The latest step called a query function: an ensureQueryData that missed,
\* a fetchQuery, or a refetch with a remembered query function.
IsIssue == last.phase = "call" /\ last.called # <<>>

\* The latest step was the settlement of a query function's promise.
IsSettlement == last.phase = "queryFn settled"

\* The kinds of hook the latest step called.
HookKinds == {last.hooks[i].hook : i \in 1..Len(last.hooks)}

\* One of the hooks the latest step called threw.
HookThrew ==
    \E i \in 1..Len(last.hooks) :
        pluginHooks[last.hooks[i].plugin][last.hooks[i].hook] = "throw"

\* C11: the entry of a key comes into being, or has its value replaced, only
\* in the step in which a query function called for that key (by
\* ensureQueryData, fetchQuery or refetch) resolves, the entry then being the
\* resolved value; it goes away only in an invalidateQuery of that key; and
\* the step in which a query function rejects leaves every entry as it was.
C11_EntryLifecycle ==
    /\ \A k \in Keys : <<"cache", k>> \in changed =>
           /\ k = last.key
           /\ \/ /\ IsSettlement
                 /\ last.op \in {"ensureQueryData", "fetchQuery", "refetch"}
                 /\ last.outcome.ok
                 /\ MapHas(cache, k)
                 /\ cache[k] = last.outcome.v
              \/ /\ IsCall("invalidateQuery")
                 /\ last.before.has
                 /\ ~MapHas(cache, k)
    /\ (IsSettlement /\ ~last.outcome.ok) =>
           /\ \A c \in changed : c[1] # "cache"
           /\ MapHas(cache, last.key) = last.before.has
           /\ MapGet(cache, last.key) = last.before.value

C11_Witness ==
    /\ IsSettled("refetch")
    /\ last.outcome.ok
    /\ last.before.has
    /\ last.before.value = "v1"
    /\ last.outcome.v = "v2"
    /\ <<"cache", last.key>> \in changed

\* C12: an ensureQueryData that finds no entry calls its own query function
\* and the start hooks also when another fetch for the same key is in
\* flight; each of the calls runs the success or the error hooks when its
\* own query function settles; and every one that resolves stores its value,
\* so that the entry is the value of the one that resolved last, whichever
\* was called first.
C12_ConcurrentEnsuresBothFetch ==
    /\ (IsCall("ensureQueryData") /\ ~last.before.has) =>
           /\ last.called = <<last.fn>>
           /\ last.hooks = DueHookCalls("onQueryStart", last.key, "-")
           /\ last.result.kind = "pending"
           /\ pending # <<>>
           /\ pending[Len(pending)].op = "ensureQueryData"
           /\ pending[Len(pending)].fn = last.fn
    /\ IsSettled("ensureQueryData") =>
           last.hooks = DueHookCalls(IF last.outcome.ok THEN "onQuerySuccess" ELSE "onQueryError",
                                     last.key, last.outcome.v)
    /\ (IsSettled("ensureQueryData") /\ last.outcome.ok) =>
           /\ MapHas(cache, last.key)
           /\ cache[last.key] = last.outcome.v

\* The younger of two ensureQueryData calls in flight for one key resolves
\* first, the older one still waiting, and the success hooks run.
C12_Witness ==
    /\ IsSettled("ensureQueryData")
    /\ last.outcome.ok
    /\ last.pos = 2
    /\ ~last.before.has
    /\ Len(pending) = 1
    /\ pending[1].op = "ensureQueryData"
    /\ pending[1].key = last.key
    /\ pending[1].fn # last.fn
    /\ last.hooks # <<>>

\* C13: whatever the hook, the plugins' hooks are called in the order in
\* which the plugins were registered, each plugin that supplies the hook
\* once and the others not at all: the start hooks when a query function is
\* called, the success or the error hooks when its promise settles, the
\* invalidate hooks in invalidateQuery.
C13_HooksInRegistrationOrder ==
    /\ \A i, j \in 1..Len(last.hooks) :
           (i < j /\ last.hooks[i].hook = last.hooks[j].hook) =>
               last.hooks[i].plugin < last.hooks[j].plugin
    /\ \A i \in 1..Len(last.hooks) :
           /\ last.hooks[i].plugin \in 1..Len(pluginHooks)
           /\ pluginHooks[last.hooks[i].plugin][last.hooks[i].hook] # "none"
    /\ IsIssue => last.hooks = DueHookCalls("onQueryStart", last.key, "-")
    /\ (IsSettlement /\ last.outcome.ok) =>
           last.hooks = DueHookCalls("onQuerySuccess", last.key, last.outcome.v)
    /\ (IsSettlement /\ ~last.outcome.ok) =>
           last.hooks = DueHookCalls("onQueryError", last.key, last.outcome.v)
    /\ IsCall("invalidateQuery") => last.hooks = DueHookCalls("onInvalidate", last.key, "-")

\* Two plugins, the first without an error hook: the success hooks run first
\* plugin first.
C13_Witness ==
    /\ Len(pluginHooks) = 2
    /\ pluginHooks[1].onQueryError = "none"
    /\ pluginHooks[2].onQueryError = "ok"
    /\ IsSettled("fetchQuery")
    /\ last.outcome.ok
    /\ Len(last.hooks) = 2
    /\ last.hooks[1].plugin = 1
    /\ last.hooks[2].plugin = 2

\* C14 (as claimed): for every call of a query function, the start hooks are
\* the hooks called before it, and when its promise settles the hooks called
\* are of one kind only, success hooks or error hooks, never both.
C14_StartThenOneOfSuccessOrError ==
    /\ IsIssue =>
           /\ HookKinds \subseteq {"onQueryStart"}
           /\ last.hooks = DueHookCalls("onQueryStart", last.key, "-")
    /\ IsSettlement =>
           \/ HookKinds \subseteq {"onQuerySuccess"}
           \/ HookKinds \subseteq {"onQueryError"}

\* C15: subscribing a callback that is already subscribed to the key changes
\* nothing, so a callback is never twice in a subscriber set nor called twice
\* in one round of notification; unsubscribe removes the callback altogether;
\* and an unsubscribe of a callback that is not subscribed to the key, also
\* of a key without a subscriber set, changes nothing and returns normally.
C15_SubscribeIsIdempotent ==
    /\ \A k \in Keys : NoRepeats(SubsOf(k))
    /\ NoRepeats(last.notified)
    /\ IsCall("subscribe") =>
           /\ last.fn \in SeqRange(SubsOf(last.key))
           /\ last.fn \in SeqRange(last.before.subs) => changed = {}
    /\ IsCall("unsubscribe") =>
           /\ last.fn \notin SeqRange(SubsOf(last.key))
           /\ last.result = [kind |-> "return", v |-> Undefined]
           /\ last.fn \notin SeqRange(last.before.subs) => changed = {}

\* A callback is subscribed again to a key it is already subscribed to.
C15_Witness ==
    /\ IsCall("subscribe")
    /\ last.before.subs = <<"cb1", "cb2">>
    /\ last.fn = "cb1"
    /\ SubsOf(last.key) = <<"cb1", "cb2">>

\* C16: the step that calls a query function changes nothing, calls no hook
\* but the start hooks and no subscriber callback, and leaves the call
\* suspended; and a call suspended at its query function stays suspended
\* (at its place among the suspended calls, or one place earlier when an
\* older call has ended) in every step but the one in which that query
\* function's promise settles, whatever other calls are made and completed
\* meanwhile.
C16_UnsettledFetchStaysPending ==
    /\ [](IsIssue =>
             /\ changed = {}
             /\ HookKinds \subseteq {"onQueryStart"}
             /\ last.notified = <<>>
             /\ last.result.kind = "pending"
             /\ pending # <<>>
             /\ pending[Len(pending)].op = last.op
             /\ pending[Len(pending)].key = last.key)
    /\ [][\A i \in 1..Len(pending) :
              pending[i].stage = "queryFn" =>
                  \/ \E j \in {i - 1, i} :
                         /\ j \in 1..Len(pending')
                         /\ pending'[j] = pending[i]
                  \/ /\ last'.phase = "queryFn settled"
                     /\ last'.op = pending[i].op
                     /\ last'.key = pending[i].key
                     /\ last'.fn = pending[i].fn]_vars

\* An ensureQueryData is still suspended at its query function while a
\* fetchQuery for the same key, called later, has stored its value.
C16_Witness ==
    /\ IsSettled("fetchQuery")
    /\ last.outcome.ok
    /\ last.pos = 2
    /\ Len(pending) = 1
    /\ pending[1].op = "ensureQueryData"
    /\ pending[1].stage = "queryFn"
    /\ pending[1].key = last.key
    /\ MapHas(cache, last.key)
    /\ MapGet(queryFns, last.key) # pending[1].fn

\* C18 (as claimed): a hook that throws is the last hook called in its step,
\* and the step does not end normally: the core calls no other hook because
\* of the exception.
C18_HookThrowPropagatesAlone ==
    \A i \in 1..Len(last.hooks) :
        pluginHooks[last.hooks[i].plugin][last.hooks[i].hook] = "throw" =>
            /\ i = Len(last.hooks)
            /\ last.result.kind # "return"

\* C17: a key for which no query function has ever resolved has no entry,
\* and getQueryData returns undefined for every key argument that addresses
\* it, whatever has been done with other keys and whatever failed fetches,
\* subscriptions and invalidations there have been for the key itself.
C17_NeverFetchedIsAbsent ==
    /\ \A q \in AllRawKeys :
           ~MapHas(succeeded, CanonicalKey(q)) =>
               /\ ~MapHas(cache, CanonicalKey(q))
               /\ getQueryDataOf(q) = Undefined
    /\ (IsCall("getQueryData") /\ ~MapHas(succeeded, last.key)) =>
           last.result = [kind |-> "return", v |-> Undefined]

\* A fetch for a key with a subscriber fails, no fetch for that key having
\* resolved, while another key has an entry.
C17_Witness ==
    /\ IsSettled("fetchQuery")
    /\ ~last.outcome.ok
    /\ ~MapHas(succeeded, last.key)
    /\ last.before.subs # <<>>
    /\ \E k \in Keys : k # last.key /\ MapHas(cache, k)

\* C19 (as amended): the remembered query function of a key is the query
\* function of the fetch for that key that resolved last; it changes only in
\* the step in which a query function resolves, not when a fetch is called
\* and not when it fails; refetch calls that function, and throws when no
\* fetch for the key has resolved. (When a start hook throws, refetch ends
\* before the function is called.)
C19_RemembersLatestResolved ==
    /\ \A k \in Keys :
           /\ MapHas(queryFns, k) = MapHas(succeeded, k)
           /\ MapGet(queryFns, k) = MapGet(succeeded, k)
    /\ \A k \in Keys : <<"queryFns", k>> \in changed =>
           /\ IsSettlement
           /\ last.outcome.ok
           /\ last.key = k
           /\ queryFns[k] = last.fn
    /\ (IsCall("refetch") /\ MapHas(succeeded, last.key)) =>
           /\ last.fn = succeeded[last.key]
           /\ \/ last.called = <<succeeded[last.key]>>
              \/ last.called = <<>> /\ HookThrew
    /\ (IsCall("refetch") /\ ~MapHas(succeeded, last.key)) =>
           /\ last.called = <<>>
           /\ last.result.kind = "throw"

\* refetch calls the function of the fetch that resolved, while a fetch
\* called later with another function is in flight.
C19_Witness ==
    /\ IsCall("refetch")
    /\ last.called = <<"F1">>
    /\ Len(pending) = 2
    /\ pending[1].op = "fetchQuery"
    /\ pending[1].key = last.key
    /\ pending[1].fn = "F2"
    /\ pending[1].stage = "queryFn"

\* C19 (as claimed): a fetch called for a key with a query function, by an
\* ensureQueryData that misses or by fetchQuery, makes that function the
\* remembered query function of the key.
C19_IssuedFnIsRemembered ==
    (IsIssue /\ last.op \in {"ensureQueryData", "fetchQuery"}) =>
        MapGet(queryFns, last.key) = last.fn

\* C20 (as amended): invalidateQuery(K, false) leaves K without an entry and
\* calls no subscriber; from then until the next call of ensureQueryData,
\* fetchQuery or refetch for K, the entry of K changes only in a step in
\* which a query function called for K before the invalidation resolves, the
\* entry then being the resolved value (and in a further invalidateQuery of
\* K, which removes it again).
C20_AbsentUntilNextResolution ==
    /\ (IsCall("invalidateQuery") /\ last.arg = "false") =>
           /\ last.key \in idle
           /\ ~MapHas(cache, last.key)
           /\ last.notified = <<>>
    /\ \A k \in idle : <<"cache", k>> \in changed =>
           /\ last.key = k
           /\ \/ /\ IsSettlement
                 /\ last.outcome.ok
                 /\ MapHas(cache, k)
                 /\ cache[k] = last.outcome.v
              \/ /\ IsCall("invalidateQuery")
                 /\ ~MapHas(cache, k)

\* A fetch in flight when its key was invalidated resolves and stores its
\* value, no fetch having been called for the key since.
C20_Witness ==
    /\ IsSettlement
    /\ last.outcome.ok
    /\ last.key \in idle
    /\ ~last.before.has
    /\ MapHas(cache, last.key)
    /\ <<"cache", last.key>> \in changed

\* C20 (as claimed): a key invalidated with false has no entry as long as
\* none of ensureQueryData, fetchQuery and refetch is called for it.
C20_AbsentUntilNextFetchCall == \A k \in idle : ~MapHas(cache, k)

\* C22: no query function is called again after it failed or succeeded: an
\* ensureQueryData that finds no entry, a fetchQuery, and a refetch of a key
\* with a remembered query function each call their query function once, in
\* the step of the call; the steps in which a promise settles call no query
\* function; and the call whose query function rejects with an error ends by
\* throwing that error to its caller (refetch in the step in which it resumes
\* after fetchQuery).
C22_NeverRetries ==
    /\ (IsCall("ensureQueryData") /\ ~last.before.has) => last.called = <<last.fn>>
    /\ IsCall("fetchQuery") => last.called = <<last.fn>>
    /\ (IsCall("refetch") /\ Truthy(last.before.fn)) => last.called = <<last.before.fn>>
    /\ last.phase # "call" => last.called = <<>>
    /\ Len(last.called) <= 1
    /\ ((IsSettled("ensureQueryData") \/ IsSettled("fetchQuery")) /\ ~last.outcome.ok) =>
           last.result = [kind |-> "throw", v |-> last.outcome.v]
    /\ (IsSettled("refetch") /\ ~last.outcome.ok) =>
           \E i \in 1..Len(pending) :
               /\ pending[i].op = "refetch"
               /\ pending[i].stage = "fetchQuery"
               /\ pending[i].settled = [kind |-> "throw", v |-> last.outcome.v]
    /\ (IsRefetchResumed /\ ~last.outcome.ok) =>
           last.result = [kind |-> "throw", v |-> last.outcome.v]

\* An ensureQueryData whose query function rejected throws the error, the
\* key keeping no entry and nothing left in flight.
C22_Witness ==
    /\ IsSettled("ensureQueryData")
    /\ ~last.outcome.ok
    /\ last.result = [kind |-> "throw", v |-> "E1"]
    /\ ~MapHas(cache, last.key)
    /\ pending = <<>>

\* C24 (as amended): getQueryData(K) returns undefined when K has no entry
\* and also when the entry of K is the value undefined, and the value of the
\* entry otherwise: after an ensureQueryData(K, F) whose F resolved to V it
\* returns V, which tells the entry from no entry for every V but undefined.
\* (ensureQueryData itself tells them apart: it returns an entry that is
\* undefined without calling its query function.)
C24_UndefinedReadsAsAbsent ==
    /\ \A q \in AllRawKeys :
           getQueryDataOf(q) = Undefined <=>
               \/ ~MapHas(cache, CanonicalKey(q))
               \/ cache[CanonicalKey(q)] = Undefined
    /\ IsCall("getQueryData") =>
           last.result = [kind |-> "return",
                          v |-> IF last.before.has THEN last.before.value ELSE Undefined]
    /\ (IsSettled("ensureQueryData") /\ last.outcome.ok) =>
           /\ MapHas(cache, last.key)
           /\ \A q \in ArgsOfKey(last.key) : getQueryDataOf(q) = last.outcome.v
    /\ (IsCall("ensureQueryData") /\ last.before.has) =>
           /\ last.called = <<>>
           /\ last.result = [kind |-> "return", v |-> last.before.value]

\* getQueryData returns undefined for a key whose entry is undefined.
C24_Witness ==
    /\ IsCall("getQueryData")
    /\ last.before.has
    /\ last.before.value = Undefined
    /\ last.result.v = Undefined
    /\ MapHas(cache, last.key)

\* C24 (as claimed): getQueryData returns undefined if and only if the key
\* has no entry, whatever value a query function resolved to.
C24_AbsentIffNoEntry ==
    \A q \in AllRawKeys :
        getQueryDataOf(q) = Undefined <=> ~MapHas(cache, CanonicalKey(q))

\* C27: a key with an entry has a remembered query function, the function
\* of the fetch for the key that resolved last; the step in which a query
\* function resolves writes both together, the entry being the value that
\* function resolved to; and neither is written in any other step while the
\* key has an entry, whatever fetches are in flight and whatever invalidations
\* come between.
C27_EntryComesFromRememberedFn ==
    /\ \A k \in Keys : MapHas(cache, k) =>
           /\ MapHas(queryFns, k)
           /\ MapHas(succeeded, k)
           /\ queryFns[k] = succeeded[k]
    /\ (IsSettlement /\ last.outcome.ok) =>
           /\ MapHas(cache, last.key)
           /\ cache[last.key] = last.outcome.v
           /\ MapGet(queryFns, last.key) = last.fn
    /\ \A k \in Keys :
           (MapHas(cache, k) /\ (<<"cache", k>> \in changed \/ <<"queryFns", k>> \in changed)) =>
               /\ IsSettlement
               /\ last.outcome.ok
               /\ last.key = k

\* Of two fetches in flight for a key that has an entry, written by another
\* function, the younger resolves first: entry and remembered function are
\* now its own, the older fetch still waiting.
C27_Witness ==
    /\ IsSettlement
    /\ last.outcome.ok
    /\ last.pos = 2
    /\ last.before.has
    /\ last.before.fn # last.fn
    /\ last.before.value # last.outcome.v
    /\ cache[last.key] = last.outcome.v
    /\ queryFns[last.key] = last.fn
    /\ Len(pending) = 1
    /\ pending[1].key = last.key

\* C28: a step of ensureQueryData, fetchQuery, refetch, invalidateQuery,
\* subscribe or unsubscribe for a key (the call, and the resumptions after
\* its awaits) changes the entry, the remembered query function and the
\* subscriber set of no key with another canonical form, and the callbacks
\* it calls are subscribed to its own key.
C28_OtherKeysUntouched ==
    /\ \A c \in changed : c[1] = "pluginHooks" \/ c[2] = last.key
    /\ \A i \in 1..Len(last.notified) : last.notified[i] \in SeqRange(SubsOf(last.key))
    /\ \A i \in 1..Len(last.hooks) : last.hooks[i].key = last.key
    /\ (IsRefetchResumed \/ IsCall("invalidateQuery")) =>
           last.notified \in {<<>>, SubsOf(last.key)}

\* invalidateQuery(K, true) removes the entry of K and calls nobody, K having
\* no subscriber, while another key has an entry, a remembered query function
\* and a subscriber.
C28_Witness ==
    /\ IsCall("invalidateQuery")
    /\ last.arg = "true"
    /\ changed = {<<"cache", last.key>>}
    /\ last.notified = <<>>
    /\ \E k \in Keys :
           /\ k # last.key
           /\ MapHas(cache, k)
           /\ MapHas(queryFns, k)
           /\ SubsOf(k) = <<"cb1">>

\* C26: when an invalidate hook throws in invalidateQuery, the method throws
\* the hook's exception to its caller; the entry of the key is gone all the
\* same and nothing else has changed; the throwing hook is the last hook
\* called, the plugins registered after it not being called; and no
\* subscriber callback is called, whatever the shouldRefetch argument.
C26_InvalidateHookThrowAborts ==
    (IsCall("invalidateQuery") /\ HookThrew) =>
        /\ last.result = [kind |-> "throw", v |-> HookError]
        /\ ~MapHas(cache, last.key)
        /\ changed \subseteq {<<"cache", last.key>>}
        /\ last.before.has => changed = {<<"cache", last.key>>}
        /\ last.notified = <<>>
        /\ \A i \in 1..Len(last.hooks) :
               pluginHooks[last.hooks[i].plugin].onInvalidate = "throw" <=> i = Len(last.hooks)
        /\ \A i \in 1..Len(last.hooks) :
               last.hooks[i] = DueHookCalls("onInvalidate", last.key, "-")[i]

\* invalidateQuery(K, true) throws the exception of the only plugin's
\* invalidate hook: the entry K had is gone and the subscriber of K was not
\* called.
C26_Witness ==
    /\ IsCall("invalidateQuery")
    /\ last.arg = "true"
    /\ HookThrew
    /\ last.before.has
    /\ last.before.subs = <<"cb1">>
    /\ last.result.kind = "throw"
    /\ ~MapHas(cache, last.key)
    /\ last.notified = <<>>

\* Two key arguments are structurally equal: both are no key, or both are
\* arrays of the same length whose elements are equal one by one, two objects
\* being equal when they have the same properties with the same values.
StructurallyEqual(q1, q2) ==
    /\ q1.kind = q2.kind
    /\ Len(q1.elems) = Len(q2.elems)
    /\ \A i \in 1..Len(q1.elems) :
           /\ q1.elems[i].t = q2.elems[i].t
           /\ IF q1.elems[i].t = "object"
              THEN SeqRange(q1.elems[i].v) = SeqRange(q2.elems[i].v)
              ELSE q1.elems[i].v = q2.elems[i].v

\* The slots of a key that the latest step changed.
ChangedOf(key) == {c \in changed : c[2] = key}

\* C23 (as amended): the entry, the subscriber set and the remembered query
\* function are addressed by the canonical form of the key argument: what a
\* fetch for a key stored is read through every key argument with the same
\* canonical form; a step changes nothing for the key arguments with another
\* canonical form, among them a structurally equal array whose object lists
\* its properties in another order; and the calls without a key address the
\* key 'undefined', which is the canonical form of no array.
C23_AddressedByCanonicalForm ==
    /\ (IsSettlement /\ last.outcome.ok) =>
           \A q \in CanonRawKeys : CanonicalKey(q) = last.key =>
               /\ getQueryDataOf(q) = last.outcome.v
               /\ MapGet(queryFns, CanonicalKey(q)) = last.fn
    /\ IsCall("subscribe") =>
           \A q \in CanonRawKeys : CanonicalKey(q) = last.key =>
               last.fn \in SeqRange(SubsOf(CanonicalKey(q)))
    /\ \A q \in CanonRawKeys : CanonicalKey(q) # last.key => ChangedOf(CanonicalKey(q)) = {}
    /\ \A q1, q2 \in ObjectKeys :
           (q1 # q2 /\ CanonicalKey(q1) = last.key) => ChangedOf(CanonicalKey(q2)) = {}
    /\ \A q \in ObjectKeys :
           /\ CanonicalKey(q) # CanonicalKey(NoKey)
           /\ CanonicalKey(NoKey) = last.key => ChangedOf(CanonicalKey(q)) = {}
    /\ last.op \notin {"new QueryClient", "use"} =>
           \E q \in CanonRawKeys : CanonicalKey(q) = last.key

\* A fetch for an array with one object resolves and stores its value; the
\* structurally equal array whose object lists the same properties in the
\* other order still reads undefined, and the key 'undefined' has an entry of
\* its own.
C23_Witness ==
    /\ IsSettlement
    /\ last.outcome.ok
    /\ <<"cache", last.key>> \in changed
    /\ MapHas(cache, CanonicalKey(NoKey))
    /\ \E q1, q2 \in ObjectKeys :
           /\ q1 # q2
           /\ StructurallyEqual(q1, q2)
           /\ CanonicalKey(q1) = last.key
           /\ getQueryDataOf(q1) = "v1"
           /\ getQueryDataOf(q2) = Undefined

\* C23 (as claimed): what a fetch for a key stored is read through every
\* structurally equal key argument.
C23_StructurallyEqualKeysShareEntry ==
    (IsSettlement /\ last.outcome.ok) =>
        \A q1, q2 \in CanonRawKeys :
            (CanonicalKey(q1) = last.key /\ StructurallyEqual(q1, q2)) =>
                getQueryDataOf(q2) = last.outcome.v

\* The reads of the latest step made by the invalidate hooks, and those made
\* by subscriber callbacks.
HookReadsDone == SelectSeq(last.reads, LAMBDA r : r.by = "onInvalidate")
CallbackReadsDone == SelectSeq(last.reads, LAMBDA r : r.by # "onInvalidate")

\* C25: in invalidateQuery the entry is deleted before the invalidate hooks
\* run and the hooks run before the subscribers are called: every hook and
\* every callback that calls getQueryData for the key during the call gets
\* undefined, the hooks' reads coming before the callbacks'; every plugin's
\* invalidate hook is called, then (the argument being truthy) the
\* subscribers; and a callback that calls ensureQueryData(K, F) finds no
\* entry, so that F is called and the call is left suspended at it.
C25_DeleteThenHooksThenCallbacks ==
    IsCall("invalidateQuery") =>
        /\ ~MapHas(cache, last.key)
        /\ \A i \in 1..Len(last.reads) : last.reads[i].v = Undefined
        /\ last.reads = HookReadsDone \o CallbackReadsDone
        /\ Len(HookReadsDone) = Len(pluginHooks)
        /\ SubSeq(last.hooks, 1, Len(pluginHooks)) = DueHookCalls("onInvalidate", last.key, "-")
        /\ Truthy(last.arg) =>
               /\ \A cb \in SeqRange(last.before.subs) : cb \in SeqRange(last.notified)
               /\ "reader" \in SeqRange(last.before.subs) =>
                      Read("reader", Undefined) \in SeqRange(CallbackReadsDone)
               /\ "fetcher" \in SeqRange(last.before.subs) =>
                      /\ last.called = <<"F1">>
                      /\ pending # <<>>
                      /\ pending[Len(pending)] = Suspended("ensureQueryData", last.key, "F1")
                      /\ SubSeq(last.hooks, Len(pluginHooks) + 1, Len(last.hooks))
                             = DueHookCalls("onQueryStart", last.key, "-")
        /\ ~Truthy(last.arg) =>
               /\ last.notified = <<>>
               /\ last.called = <<>>
               /\ CallbackReadsDone = <<>>

\* invalidateQuery(K, true) for a key with an entry: the plugin's invalidate
\* hook reads undefined, and the subscribed callback that calls
\* ensureQueryData(K, F1) has F1 called.
C25_Witness ==
    /\ IsCall("invalidateQuery")
    /\ last.arg = "true"
    /\ last.before.has
    /\ last.before.value = "v1"
    /\ last.before.subs = <<"fetcher">>
    /\ last.reads = <<Read("onInvalidate", Undefined)>>
    /\ last.called = <<"F1">>
    /\ Len(pending) = 1

\* C29 (as claimed): a round of notification ends, and calls no callback
\* twice, whatever the callbacks do with the subscriber set of the key
\* meanwhile.
C29_RoundEndsEachCallbackOnce ==
    /\ last.result.kind # "hang"
    /\ NoRepeats(last.notified)

\* C21 (as claimed): invalidateQuery(K, true) has the query function of
\* every component that uses K through useQuery, Solid or React, called
\* again, so that the entry comes back when it resolves: when
\* invalidateQuery returns, the component's callback has been called and a
\* fetch for K with the component's query function is in flight; and a
\* component that goes away is no longer subscribed.
C21_InvalidationRefetchesForEveryBinding ==
    /\ (IsCall("invalidateQuery") /\ Truthy(last.arg)) =>
           \A cb \in BindingCallbacks : cb \in SeqRange(last.before.subs) =>
               /\ cb \in SeqRange(last.notified)
               /\ \E i \in 1..Len(pending) :
                      pending[i] = Suspended("ensureQueryData", last.key, BindingFn(cb))
    /\ IsCall("unsubscribe") => last.fn \notin SeqRange(SubsOf(last.key))

====
